---- MODULE Spec2Model ----
(***************************************************************************)
(* Model of untitledai/server/routes/capture.py: the stream API            *)
(* (streaming_post, complete_audio), the chunk API (upload_chunk,          *)
(* process_capture), the ProcessAudioChunkTask and the single background   *)
(* worker that drains the task queue.                                      *)
(*                                                                         *)
(* Request handlers are coroutines on one event loop: a handler runs       *)
(* atomically between two awaits.  upload_chunk has one await (file.read,  *)
(* line 265); process_capture and complete_audio have none; streaming_post *)
(* awaits each chunk of the request stream.                                *)
(***************************************************************************)
EXTENDS Integers, Sequences, FiniteSets, TLC

\* ------------------------------------------------------------------ bounds
MaxReq == 2        \* upload_chunk requests issued in one behaviour
MaxFinal == 2      \* process_capture requests issued in one behaviour
MaxSpans == 2      \* completed spans one detect_conversations call returns
MaxStream == 2     \* streaming_post requests issued in one behaviour
MaxChunk == 2      \* chunks the streaming_post requests of one behaviour carry
MaxComplete == 2   \* complete_audio requests issued in one behaviour

\* ------------------------------------------------------------ input domains
Ids == {"a", "b"}                       \* capture_uuid values
Dirs == {"d1"}                          \* {date}/{device} directory of a capture
Exts == {"pcm", "wav", "aac", "mp3"}    \* extension of the uploaded file name
Payloads == {<<>>, <<1>>, <<2, 3>>}     \* bodies of an uploaded chunk

\* Optional values: None is the empty sequence, Some(x) a one-element sequence.
None == <<>>
Some(x) == <<x>>

\* Mutant of supported_upload_file_extensions: mp3 is accepted too.
supported_with_mp3 == {"pcm", "wav", "aac", "mp3"}

supported_upload_file_extensions == {"pcm", "wav", "aac"}

VARIABLES
    capture_files_by_id,                    \* app_state: capture_uuid -> CaptureFile
    conversation_detection_service_by_id,   \* app_state: capture_uuid -> service
    task_queue,                             \* app_state.task_queue, FIFO
    disk,                                   \* capture_dir: filepath -> file
    suspended,                              \* upload_chunk coroutines at await file.read()
    nextInst,                               \* identity of the next constructed pair
    nextTask,                               \* identity of the next constructed task
    nReq,                                   \* upload_chunk requests issued so far
    nFinal,                                 \* process_capture requests issued so far
    response,                               \* the last response sent
    created,                                \* history: pairs constructed and stored, per id
    appendLog,                              \* history: appends to capture files, in order
    detectLog,                              \* history: detect_conversations calls, in order
    failed,                                 \* history: the last task whose run raised
    lastRun,                                \* history: what the last task run did
    finalized,                              \* history: successful process_capture per id
    capture_handlers,                       \* app_state: capture_uuid -> StreamingCaptureHandler
    streams,                                \* streaming_post coroutines in request.stream()
    nStream,                                \* streaming_post requests issued so far
    nChunk,                                 \* chunks received by streaming_post so far
    nComplete                               \* complete_audio requests issued so far

vars == <<capture_files_by_id, conversation_detection_service_by_id, task_queue,
          disk, suspended, nextInst, nextTask, nReq, nFinal, response,
          created, appendLog, detectLog, failed, lastRun, finalized,
          capture_handlers, streams, nStream, nChunk, nComplete>>

\* The state only streaming_post and complete_audio touch.
streamVars == <<capture_handlers, streams, nStream, nChunk, nComplete>>

\* ------------------------------------------------------------ data helpers
Path(dir, uuid, ext) == [dir |-> dir, uuid |-> uuid, ext |-> ext]

\* CaptureFile(capture_directory, capture_uuid, device_type, timestamp, file_extension)
CaptureFile(inst, dir, uuid, ext) ==
    [inst |-> inst, capture_uuid |-> uuid, filepath |-> Path(dir, uuid, ext)]

\* CaptureFile.from_filepath(filepath): a new object rebuilt from the path alone
CaptureFileFromFilepath(filepath) ==
    [inst |-> 0, capture_uuid |-> filepath.uuid, filepath |-> filepath]

\* ConversationDetectionService(config, capture_filepath, capture_timestamp)
ConversationDetectionService(inst, capture_file) ==
    [inst |-> inst, capture_filepath |-> capture_file.filepath]

\* The value a Python name bound to None holds where a service is expected.
NoService == [inst |-> 0, capture_filepath |-> Path("", "", "")]

\* The object an optional service stands for.
Unwrap(found) == IF found = None THEN NoService ELSE found[1]

\* dict.get(key): Some(value) or None
Get(map, key) == IF key \in DOMAIN map THEN Some(map[key]) ELSE None

\* dict[key] = value
Store(map, key, value) ==
    [k \in (DOMAIN map) \cup {key} |-> IF k = key THEN value ELSE map[k]]

\* Mutant of Remove: the entry is left in the dict.
KeepEntry(map, key) == map

\* if key in dict: del dict[key]
Remove(map, key) == [k \in (DOMAIN map) \ {key} |-> map[k]]

\* ProcessAudioChunkTask(capture_file, detection_service, format, audio_data)
ProcessAudioChunkTask(tid, capture_file, detection_service, format, audio_data) ==
    [tid |-> tid, capture_file |-> capture_file,
     detection_service |-> detection_service,
     format |-> format, audio_data |-> audio_data]

\* Mutant of Put: the task goes to the front of the queue.
PutFront(queue, task) == <<task>> \o queue

\* app_state.task_queue.put(task)
Put(queue, task) == Append(queue, task)

\* Mutant of NormalizeExtension: raw PCM is renamed to wav but appended as is.
NormalizeExtensionNoHeader(ext) ==
    IF ext = "pcm" THEN [file_extension |-> "wav", write_wav_header |-> FALSE]
                   ELSE [file_extension |-> ext, write_wav_header |-> FALSE]

\* file extension handling of upload_chunk: raw PCM becomes wav with a header
NormalizeExtension(ext) ==
    IF ext = "pcm" THEN [file_extension |-> "wav", write_wav_header |-> TRUE]
                   ELSE [file_extension |-> ext, write_wav_header |-> FALSE]

\* with open(filepath, "ab") as fp: fp.write(content)
AppendRaw(files, filepath, content) ==
    IF filepath \in DOMAIN files
    THEN [files EXCEPT ![filepath].data = @ \o content]
    ELSE Store(files, filepath, [hdr |-> FALSE, declared |-> 0, data |-> content])

\* append_to_wav_file(filepath, sample_bytes, sample_rate): a header is
\* written when the file is new; the declared length follows the data.
append_to_wav_file(files, filepath, content) ==
    IF filepath \in DOMAIN files
    THEN [files EXCEPT ![filepath].data = @ \o content,
                       ![filepath].declared =
                           IF files[filepath].hdr
                           THEN Len(files[filepath].data) + Len(content) ELSE @]
    ELSE Store(files, filepath,
               [hdr |-> TRUE, declared |-> Len(content), data |-> content])

\* find_audio_filepath: the outcomes the call can produce.  list.index raises
\* ValueError when nothing matches (it never returns a negative index), and
\* returns the first match in glob order, which is any of the matches.
Matches(files, capture_uuid) == {p \in DOMAIN files : p.uuid = capture_uuid}

find_audio_filepath(files, capture_uuid) ==
    IF Matches(files, capture_uuid) = {}
    THEN {[raised |-> TRUE, filepath |-> None]}
    ELSE {[raised |-> FALSE, filepath |-> Some(p)] : p \in Matches(files, capture_uuid)}

\* ------------------------------------------------ ProcessAudioChunkTask.run
\* for segment_file in segment_files: process_conversation_from_audio(...)
\* inside one try: the segments the processor was invoked for when it raises
\* on the pfail-th segment (pfail = 0: it never raises).
ProcessSegments(segment_files, pfail) ==
    IF pfail = 0 THEN segment_files ELSE SubSeq(segment_files, 1, pfail)

\* Mutant of ProgressUpdates: only the completed spans are reported.
ProgressUpdatesCompletedOnly(completed, in_progress) ==
    [i \in 1..completed |-> [span |-> i, in_conversation |-> FALSE]]

\* progress_updates: one per completed span, then one for the span in progress
ProgressUpdates(completed, in_progress) ==
    [i \in 1..completed |-> [span |-> i, in_conversation |-> FALSE]]
        \o (IF in_progress THEN <<[span |-> completed + 1, in_conversation |-> TRUE]>>
                           ELSE <<>>)

\* for progress in progress_updates: await send_notification(...): the updates
\* sent when the nfail-th send raises (nfail = 0: none raises).
SendUpdates(progress_updates, nfail) ==
    IF nfail = 0 THEN progress_updates ELSE SubSeq(progress_updates, 1, nfail - 1)

\* Mutant of DetectCall: capture_finished = not audio_data (an empty chunk
\* counts as no audio).
DetectCallFalsy(task) ==
    [tid |-> task.tid,
     service |-> task.detection_service.inst,
     capture_uuid |-> task.capture_file.capture_uuid,
     audio_data |-> task.audio_data,
     format |-> task.format,
     capture_finished |-> (task.audio_data = None \/ task.audio_data = Some(<<>>))]

\* The detect_conversations call one run makes.
DetectCall(task) ==
    [tid |-> task.tid,
     service |-> task.detection_service.inst,
     capture_uuid |-> task.capture_file.capture_uuid,
     audio_data |-> task.audio_data,
     format |-> task.format,
     capture_finished |-> (task.audio_data = None)]

\* run(app_state): completed / in_progress are what detect_conversations
\* returned; stage names the awaited call that raised out of run ("ok": none
\* of detect / extract did), pfail and nfail the failing processor call and
\* notification.
Run(task, completed, in_progress, stage, pfail, nfail) ==
    LET segment_files == IF stage = "detect" THEN <<>> ELSE [i \in 1..completed |-> i]
        reached == stage = "ok"
        updates == ProgressUpdates(completed, in_progress)
    IN  [tid |-> task.tid,
         capture_finished |-> (task.audio_data = None),
         stage |-> stage,
         completed |-> completed,
         in_progress |-> in_progress,
         segments |-> segment_files,
         extracted |-> IF stage = "detect" THEN <<>> ELSE segment_files,
         pfail |-> pfail,
         processed |-> IF reached THEN ProcessSegments(segment_files, pfail) ELSE <<>>,
         notified |-> IF reached THEN SendUpdates(updates, nfail) ELSE <<>>,
         raised |-> (stage # "ok" \/ nfail # 0)]

NoRun ==
    [tid |-> 0, capture_finished |-> FALSE, stage |-> "ok",
     completed |-> 0, in_progress |-> FALSE,
     segments |-> <<>>, extracted |-> <<>>, pfail |-> 0, processed |-> <<>>,
     notified |-> <<>>, raised |-> FALSE]

\* ------------------------------------------------------------------- Init
EmptyMap == [k \in {} |-> None]

OldFile == [hdr |-> TRUE, declared |-> 1, data |-> <<0>>]

\* Capture files a previous process lifetime may have left in capture_dir.
InitDisks ==
    { EmptyMap, [p \in {Path("d1", "a", "wav")} |-> OldFile] }

NoResponse ==
    [op |-> "none", rid |-> 0, capture_uuid |-> "", ext |-> "",
     status |-> 0, message |-> ""]

\* rid numbers the requests of one endpoint; ext is the upload's extension
Response(op, rid, capture_uuid, ext, status, message) ==
    [op |-> op, rid |-> rid, capture_uuid |-> capture_uuid, ext |-> ext,
     status |-> status, message |-> message]

Init ==
    /\ capture_files_by_id = EmptyMap
    /\ conversation_detection_service_by_id = EmptyMap
    /\ task_queue = <<>>
    /\ disk \in InitDisks
    /\ suspended = {}
    /\ nextInst = 1
    /\ nextTask = 1
    /\ nReq = 0
    /\ nFinal = 0
    /\ response = NoResponse
    /\ created = [c \in Ids |-> 0]
    /\ appendLog = <<>>
    /\ detectLog = <<>>
    /\ failed = 0
    /\ lastRun = NoRun
    /\ finalized = [c \in Ids |-> 0]
    /\ capture_handlers = EmptyMap
    /\ streams = {}
    /\ nStream = 0
    /\ nChunk = 0
    /\ nComplete = 0

\* ----------------------------------------------------------- upload_chunk
\* Mutant of InRegistry: the lookup never finds the session.
InRegistryNever(capture_uuid) == FALSE

\* if capture_uuid in app_state.capture_files_by_id
InRegistry(capture_uuid) == capture_uuid \in DOMAIN capture_files_by_id

\* The local variables of an upload_chunk coroutine suspended in file.read();
\* ext and epoch are history: the extension as uploaded and the finalizes of
\* its capture id that preceded the request.
Coroutine(rid, ext, capture_file, detection_service, norm) ==
    [rid |-> rid, ext |-> ext, capture_file |-> capture_file,
     detection_service |-> detection_service,
     file_extension |-> norm.file_extension,
     write_wav_header |-> norm.write_wav_header,
     epoch |-> finalized[capture_file.capture_uuid]]

\* upload_chunk up to "content = await file.read()" (lines 223-265)
UploadBegin(capture_uuid, dir, ext) ==
    /\ nReq < MaxReq
    /\ nReq' = nReq + 1
    /\ UNCHANGED <<task_queue, disk, nextTask, nFinal, appendLog, detectLog,
                   failed, lastRun, finalized, streamVars>>
    /\ LET rid == nReq + 1
           norm == NormalizeExtension(ext)
       IN  IF ext \notin supported_upload_file_extensions
           THEN /\ response' = Response("upload_chunk", rid, capture_uuid, ext, 200,
                                        "Failed to process because file extension is unsupported")
                /\ UNCHANGED <<capture_files_by_id, conversation_detection_service_by_id,
                               suspended, nextInst, created>>
           ELSE IF InRegistry(capture_uuid)
           THEN LET capture_file == capture_files_by_id[capture_uuid]
                    found == Get(conversation_detection_service_by_id, capture_uuid)
                IN  IF found = None
                    THEN /\ response' = Response("upload_chunk", rid, capture_uuid, ext, 500,
                                                 "Internal error: Lost conversation service")
                         /\ UNCHANGED <<capture_files_by_id,
                                        conversation_detection_service_by_id,
                                        suspended, nextInst, created>>
                    ELSE /\ suspended' = suspended \cup
                                {Coroutine(rid, ext, capture_file, found[1], norm)}
                         /\ UNCHANGED <<capture_files_by_id,
                                        conversation_detection_service_by_id,
                                        nextInst, created, response>>
           ELSE LET capture_file == CaptureFile(nextInst, dir, capture_uuid, norm.file_extension)
                    detection_service == ConversationDetectionService(nextInst, capture_file)
                IN  /\ capture_files_by_id' =
                            Store(capture_files_by_id, capture_uuid, capture_file)
                    /\ conversation_detection_service_by_id' =
                            Store(conversation_detection_service_by_id, capture_uuid,
                                  detection_service)
                    /\ nextInst' = nextInst + 1
                    /\ created' = [created EXCEPT ![capture_uuid] = @ + 1]
                    /\ suspended' = suspended \cup
                            {Coroutine(rid, ext, capture_file, detection_service, norm)}
                    /\ UNCHANGED response

\* upload_chunk from the return of file.read(), which yields content, to the
\* response (lines 265-286)
UploadResume(r, content) ==
    /\ r \in suspended
    /\ suspended' = suspended \ {r}
    /\ disk' = IF r.write_wav_header
               THEN append_to_wav_file(disk, r.capture_file.filepath, content)
               ELSE AppendRaw(disk, r.capture_file.filepath, content)
    /\ appendLog' = Append(appendLog,
            [rid |-> r.rid, inst |-> r.capture_file.inst,
             filepath |-> r.capture_file.filepath, content |-> content,
             tid |-> nextTask, epoch |-> r.epoch])
    /\ task_queue' = Put(task_queue,
            ProcessAudioChunkTask(nextTask, r.capture_file, r.detection_service,
                                  r.file_extension, Some(content)))
    /\ nextTask' = nextTask + 1
    /\ response' = Response("upload_chunk", r.rid, r.capture_file.capture_uuid,
                            r.ext, 200, "Audio processed")
    /\ UNCHANGED <<capture_files_by_id, conversation_detection_service_by_id,
                   nextInst, nReq, nFinal, created, detectLog, failed, lastRun, finalized,
                   streamVars>>

\* -------------------------------------------------------- process_capture
\* Mutant of ProcessCaptureOutcome: a missing detection service is not checked.
ProcessCaptureOutcomeUnchecked(found, service) ==
    IF found.raised THEN "not_found"
    ELSE IF found.filepath[1].ext \notin {"wav", "aac"} THEN "bad_format"
    ELSE "ok"

\* What process_capture does with the file found and the registry lookup:
\* "not_found" (find_audio_filepath raised), "lost_service" (no detection
\* service: the raise at line 309), "bad_format" (the task's assert) or "ok".
ProcessCaptureOutcome(found, service) ==
    IF found.raised THEN "not_found"
    ELSE IF service = None THEN "lost_service"
    ELSE IF found.filepath[1].ext \notin {"wav", "aac"} THEN "bad_format"
    ELSE "ok"

\* Mutant of ProcessCapture: the detection service entry is left behind.
ProcessCaptureKeepsService(capture_uuid) ==
    /\ nFinal < MaxFinal
    /\ nFinal' = nFinal + 1
    /\ UNCHANGED <<disk, suspended, nextInst, nReq, created, appendLog, detectLog,
                   failed, lastRun, conversation_detection_service_by_id, streamVars>>
    /\ \E found \in find_audio_filepath(disk, capture_uuid) :
         LET service == Get(conversation_detection_service_by_id, capture_uuid)
             outcome == ProcessCaptureOutcome(found, service)
         IN  IF outcome = "ok"
             THEN LET capture_file == CaptureFileFromFilepath(found.filepath[1])
                      task == ProcessAudioChunkTask(nextTask, capture_file, Unwrap(service),
                                                    capture_file.filepath.ext, None)
                  IN  /\ task_queue' = Put(task_queue, task)
                      /\ nextTask' = nextTask + 1
                      /\ capture_files_by_id' = Remove(capture_files_by_id, capture_uuid)
                      /\ finalized' = [finalized EXCEPT ![capture_uuid] = @ + 1]
                      /\ response' = Response("process_capture", nFinal + 1, capture_uuid,
                                              "", 200, "Conversation processed")
             ELSE /\ response' = Response("process_capture", nFinal + 1, capture_uuid,
                                          "", 500, outcome)
                  /\ UNCHANGED <<task_queue, nextTask, capture_files_by_id, finalized>>

\* process_capture (lines 294-337); it has no await and runs atomically.
ProcessCapture(capture_uuid) ==
    /\ nFinal < MaxFinal
    /\ nFinal' = nFinal + 1
    /\ UNCHANGED <<disk, suspended, nextInst, nReq, created, appendLog, detectLog,
                   failed, lastRun, streamVars>>
    /\ \E found \in find_audio_filepath(disk, capture_uuid) :
         LET service == Get(conversation_detection_service_by_id, capture_uuid)
             outcome == ProcessCaptureOutcome(found, service)
         IN  IF outcome = "ok"
             THEN LET capture_file == CaptureFileFromFilepath(found.filepath[1])
                      task == ProcessAudioChunkTask(nextTask, capture_file, Unwrap(service),
                                                    capture_file.filepath.ext, None)
                  IN  /\ task_queue' = Put(task_queue, task)
                      /\ nextTask' = nextTask + 1
                      /\ capture_files_by_id' = Remove(capture_files_by_id, capture_uuid)
                      /\ conversation_detection_service_by_id' =
                              Remove(conversation_detection_service_by_id, capture_uuid)
                      /\ finalized' = [finalized EXCEPT ![capture_uuid] = @ + 1]
                      /\ response' = Response("process_capture", nFinal + 1, capture_uuid,
                                              "", 200, "Conversation processed")
             ELSE /\ response' = Response("process_capture", nFinal + 1, capture_uuid,
                                          "", 500, outcome)
                  /\ UNCHANGED <<task_queue, nextTask, capture_files_by_id,
                                 conversation_detection_service_by_id, finalized>>

\* ------------------------------------------- streaming_post, complete_audio
\* StreamingCaptureHandler(app_state, device_type, capture_uuid, file_extension):
\* the handler object; it reaches the capture file and the detection service
\* of its capture id through the registry.
StreamingCaptureHandler(capture_uuid, file_extension) ==
    [capture_uuid |-> capture_uuid, file_extension |-> file_extension,
     finished |-> FALSE]

\* StreamingCaptureHandler.__init__: the session is created via the registry
\* when the capture id has none.
OpenSession(capture_uuid, file_extension) ==
    IF capture_uuid \in DOMAIN capture_files_by_id
    THEN UNCHANGED <<capture_files_by_id, conversation_detection_service_by_id,
                     nextInst, created>>
    ELSE LET capture_file == CaptureFile(nextInst, "d1", capture_uuid, file_extension)
             detection_service == ConversationDetectionService(nextInst, capture_file)
         IN  /\ capture_files_by_id' =
                    Store(capture_files_by_id, capture_uuid, capture_file)
             /\ conversation_detection_service_by_id' =
                    Store(conversation_detection_service_by_id, capture_uuid,
                          detection_service)
             /\ nextInst' = nextInst + 1
             /\ created' = [created EXCEPT ![capture_uuid] = @ + 1]

\* if capture_uuid not in app_state.capture_handlers
HasHandler(capture_uuid) == capture_uuid \in DOMAIN capture_handlers

\* streaming_post up to the first "async for chunk in request.stream()"
\* (lines 40-47)
StreamOpen(capture_uuid) ==
    /\ nStream < MaxStream
    /\ nStream' = nStream + 1
    /\ streams' = streams \cup {[sid |-> nStream + 1, capture_uuid |-> capture_uuid]}
    /\ IF HasHandler(capture_uuid)
       THEN UNCHANGED <<capture_handlers, capture_files_by_id,
                        conversation_detection_service_by_id, nextInst, created>>
       ELSE /\ capture_handlers' =
                   Store(capture_handlers, capture_uuid,
                         StreamingCaptureHandler(capture_uuid, "wav"))
            /\ OpenSession(capture_uuid, "wav")
    /\ UNCHANGED <<task_queue, disk, suspended, nextTask, nReq, nFinal, response,
                   appendLog, detectLog, failed, lastRun, finalized, nChunk, nComplete>>

\* One turn of the loop: await capture_handler.handle_audio_data(chunk)
\* (lines 47-48).  handle_audio_data appends the chunk to the capture file and
\* puts a task carrying it; for a capture id that is not in the registry it
\* raises, which ends streaming_post with an error response.
StreamChunk(s, content) ==
    /\ s \in streams
    /\ nChunk < MaxChunk
    /\ nChunk' = nChunk + 1
    /\ LET capture_uuid == s.capture_uuid
           found == Get(capture_files_by_id, capture_uuid)
           service == Get(conversation_detection_service_by_id, capture_uuid)
       IN  IF found = None
           THEN /\ streams' = streams \ {s}
                /\ response' = Response("streaming_post", s.sid, capture_uuid, "",
                                        500, "SessionNotFound")
                /\ UNCHANGED <<disk, appendLog, task_queue, nextTask>>
           ELSE /\ disk' = append_to_wav_file(disk, found[1].filepath, content)
                /\ appendLog' = Append(appendLog,
                        [rid |-> 0, inst |-> found[1].inst,
                         filepath |-> found[1].filepath, content |-> content,
                         tid |-> nextTask, epoch |-> finalized[capture_uuid]])
                /\ task_queue' = Put(task_queue,
                        ProcessAudioChunkTask(nextTask, found[1], Unwrap(service),
                                              capture_handlers[capture_uuid].file_extension,
                                              Some(content)))
                /\ nextTask' = nextTask + 1
                /\ UNCHANGED <<streams, response>>
    /\ UNCHANGED <<capture_files_by_id, conversation_detection_service_by_id,
                   suspended, nextInst, nReq, nFinal, created, detectLog, failed,
                   lastRun, finalized, capture_handlers, nStream, nComplete>>

\* Mutant of OnDisconnect: a dropped connection discards the handler.
OnDisconnectEvicts(handlers, capture_uuid) == Remove(handlers, capture_uuid)

\* except ClientDisconnect: logger.info(...): nothing but a log line
OnDisconnect(handlers, capture_uuid) == handlers

\* The stream ends, by exhaustion or by ClientDisconnect, and streaming_post
\* returns (lines 47-53).
StreamEnd(s, disconnect) ==
    /\ s \in streams
    /\ streams' = streams \ {s}
    /\ capture_handlers' = IF disconnect
                           THEN OnDisconnect(capture_handlers, s.capture_uuid)
                           ELSE capture_handlers
    /\ response' = Response("streaming_post", s.sid, s.capture_uuid, "",
                            200, "Audio received")
    /\ UNCHANGED <<capture_files_by_id, conversation_detection_service_by_id,
                   task_queue, disk, suspended, nextInst, nextTask, nReq, nFinal,
                   created, appendLog, detectLog, failed, lastRun, finalized,
                   nStream, nChunk, nComplete>>

\* Mutant of CompleteAudio: an unknown capture id gets a handler and a session.
CompleteAudioCreates(capture_uuid) ==
    /\ nComplete < MaxComplete
    /\ nComplete' = nComplete + 1
    /\ ~HasHandler(capture_uuid)
    /\ capture_handlers' =
           Store(capture_handlers, capture_uuid,
                 StreamingCaptureHandler(capture_uuid, "wav"))
    /\ OpenSession(capture_uuid, "wav")
    /\ response' = Response("complete_audio", nComplete + 1, capture_uuid, "", 200,
                            "Audio processed")
    /\ UNCHANGED <<task_queue, disk, suspended, nextTask, nReq, nFinal, appendLog,
                   detectLog, failed, lastRun, finalized, streams, nStream, nChunk>>

\* complete_audio (lines 56-65).
\* finish_capture_session puts the task without audio when the handler was
\* not finished before, and removes nothing; for a capture id that is not in
\* the registry it raises.
CompleteAudio(capture_uuid) ==
    /\ nComplete < MaxComplete
    /\ nComplete' = nComplete + 1
    /\ UNCHANGED <<capture_files_by_id, conversation_detection_service_by_id,
                   disk, suspended, nextInst, nReq, nFinal, created, appendLog,
                   detectLog, failed, lastRun, finalized, streams, nStream, nChunk>>
    /\ IF ~HasHandler(capture_uuid)
       THEN /\ response' = Response("complete_audio", nComplete + 1, capture_uuid, "", 500,
                                    "Capture session not found")
            /\ UNCHANGED <<capture_handlers, task_queue, nextTask>>
       ELSE LET found == Get(capture_files_by_id, capture_uuid)
                service == Get(conversation_detection_service_by_id, capture_uuid)
            IN  IF found = None
                THEN /\ response' = Response("complete_audio", nComplete + 1,
                                             capture_uuid, "", 500, "SessionNotFound")
                     /\ UNCHANGED <<capture_handlers, task_queue, nextTask>>
                ELSE /\ response' = Response("complete_audio", nComplete + 1,
                                             capture_uuid, "", 200, "Audio processed")
                     /\ IF capture_handlers[capture_uuid].finished
                        THEN UNCHANGED <<capture_handlers, task_queue, nextTask>>
                        ELSE /\ capture_handlers' =
                                    [capture_handlers EXCEPT ![capture_uuid].finished = TRUE]
                             /\ task_queue' = Put(task_queue,
                                    ProcessAudioChunkTask(nextTask, found[1], Unwrap(service),
                                        capture_handlers[capture_uuid].file_extension, None))
                             /\ nextTask' = nextTask + 1

\* ------------------------------------------------------ background worker
\* What the collaborators of one run can answer: the detection result and
\* which awaited call raises.
RunInputs ==
    { x \in [stage : {"ok", "detect", "extract"}, completed : 0..MaxSpans,
             in_progress : BOOLEAN, pfail : 0..MaxSpans, nfail : 0..(MaxSpans + 1)] :
        /\ x.pfail <= x.completed
        /\ x.nfail <= x.completed + (IF x.in_progress THEN 1 ELSE 0)
        /\ x.stage = "detect" => x.completed = 0 /\ ~x.in_progress
        /\ x.stage # "ok" => x.pfail = 0 /\ x.nfail = 0 }

RunWith(task, x) == Run(task, x.completed, x.in_progress, x.stage, x.pfail, x.nfail)

\* Mutant of WorkerStep: the worker stops for good once a run has raised.
WorkerStepHalts ==
    /\ failed = 0
    /\ task_queue # <<>>
    /\ task_queue' = Tail(task_queue)
    /\ detectLog' = Append(detectLog, DetectCall(Head(task_queue)))
    /\ \E raised \in {RunWith(Head(task_queue), x).raised : x \in RunInputs} :
          failed' = IF raised THEN Head(task_queue).tid ELSE failed
    /\ UNCHANGED <<capture_files_by_id, conversation_detection_service_by_id, disk,
                   suspended, nextInst, nextTask, nReq, nFinal, response, created,
                   appendLog, lastRun, finalized, streamVars>>

\* The single consumer of the task queue: takes the oldest task and runs it;
\* an exception raised by run is logged and the worker goes on.
WorkerStep ==
    /\ task_queue # <<>>
    /\ task_queue' = Tail(task_queue)
    /\ detectLog' = Append(detectLog, DetectCall(Head(task_queue)))
    /\ \E raised \in {RunWith(Head(task_queue), x).raised : x \in RunInputs} :
          failed' = IF raised THEN Head(task_queue).tid ELSE failed
    /\ UNCHANGED <<capture_files_by_id, conversation_detection_service_by_id, disk,
                   suspended, nextInst, nextTask, nReq, nFinal, response, created,
                   appendLog, lastRun, finalized, streamVars>>

Next ==
    \/ \E capture_uuid \in Ids, dir \in Dirs, ext \in Exts :
          UploadBegin(capture_uuid, dir, ext)
    \/ \E r \in suspended, content \in Payloads : UploadResume(r, content)
    \/ \E capture_uuid \in Ids : ProcessCapture(capture_uuid)
    \/ WorkerStep

Spec == Init /\ [][Next]_vars

\* The same handlers and worker under fair scheduling of the worker: the
\* worker takes a task whenever the queue holds one.  Whether the queue drains
\* does not depend on what a chunk holds, so the uploads here carry one
\* payload and a supported extension.
LiveExts == {"wav", "aac"}
LivePayloads == {<<1>>}

NextLive ==
    \/ \E capture_uuid \in Ids, dir \in Dirs, ext \in LiveExts :
          UploadBegin(capture_uuid, dir, ext)
    \/ \E r \in suspended, content \in LivePayloads : UploadResume(r, content)
    \/ \E capture_uuid \in Ids : ProcessCapture(capture_uuid)
    \/ WorkerStep

LiveSpec == Init /\ [][NextLive]_vars /\ WF_vars(WorkerStep)

\* Both transports on one capture id.  A handler touches only the entries of
\* its own capture id, and what the registry holds does not depend on what a
\* chunk holds or on the worker, so the requests here name one id, the
\* uploads and the stream chunks carry one payload and the uploads are wav.
StreamIds == {"a"}
StreamExts == {"wav"}
StreamPayloads == {<<1>>}

NextStream ==
    \/ \E capture_uuid \in StreamIds : StreamOpen(capture_uuid)
    \/ \E s \in streams, content \in StreamPayloads : StreamChunk(s, content)
    \/ \E s \in streams, disconnect \in BOOLEAN : StreamEnd(s, disconnect)
    \/ \E capture_uuid \in StreamIds : CompleteAudio(capture_uuid)
    \/ \E capture_uuid \in StreamIds, dir \in Dirs, ext \in StreamExts :
          UploadBegin(capture_uuid, dir, ext)
    \/ \E r \in suspended, content \in StreamPayloads : UploadResume(r, content)
    \/ \E capture_uuid \in StreamIds : ProcessCapture(capture_uuid)

SpecStream == Init /\ [][NextStream]_vars

\* ------------------------------------------------------ one run of a task
\* The tasks the handlers construct, and what one run of a task does with
\* every answer of its collaborators.
RunTasks ==
    { ProcessAudioChunkTask(tid, CaptureFile(1, "d1", "a", format),
                            ConversationDetectionService(1, CaptureFile(1, "d1", "a", format)),
                            format, audio_data) :
        tid \in 1..2, format \in {"wav", "aac"},
        audio_data \in {None} \cup {Some(c) : c \in Payloads} }

RunTask ==
    /\ \E task \in RunTasks, x \in RunInputs : lastRun' = RunWith(task, x)
    /\ UNCHANGED <<capture_files_by_id, conversation_detection_service_by_id, task_queue,
                   disk, suspended, nextInst, nextTask, nReq, nFinal, response, created,
                   appendLog, detectLog, failed, finalized, streamVars>>

SpecRun == Init /\ [][RunTask]_vars

TypeOK ==
    /\ DOMAIN capture_files_by_id \subseteq Ids
    /\ DOMAIN conversation_detection_service_by_id \subseteq Ids
    /\ nReq \in 0..MaxReq
    /\ nFinal \in 0..MaxFinal

\* ---------------------------------------------------------------- claims
\* Every detect_conversations call made so far or still queued, in order.
AllCalls == detectLog \o [i \in 1..Len(task_queue) |-> DetectCall(task_queue[i])]

Indices(seq) == 1..Len(seq)

\* C1: exclusivity.  Upload requests that race on a capture id not in the
\* registry construct and store exactly one CaptureFile / detection service
\* pair for it (one per registration of the id: a pair is constructed only
\* when the id is absent, so the pairs constructed for an id number its
\* finalizes plus one while it is registered), and all requests of one
\* registration hold, append to and enqueue with that same pair.
Exclusivity ==
    /\ \A c \in Ids :
          created[c] = finalized[c] + (IF c \in DOMAIN capture_files_by_id THEN 1 ELSE 0)
    /\ \A r \in suspended :
          LET c == r.capture_file.capture_uuid
          IN  /\ r.capture_file.inst = r.detection_service.inst
              /\ r.epoch = finalized[c] =>
                    /\ c \in DOMAIN capture_files_by_id
                    /\ c \in DOMAIN conversation_detection_service_by_id
                    /\ r.capture_file = capture_files_by_id[c]
                    /\ r.detection_service = conversation_detection_service_by_id[c]
    /\ \A r1, r2 \in suspended :
          (r1.capture_file.capture_uuid = r2.capture_file.capture_uuid
              /\ r1.epoch = r2.epoch) => r1.capture_file = r2.capture_file
    /\ \A i, j \in Indices(appendLog) :
          (appendLog[i].filepath.uuid = appendLog[j].filepath.uuid
              /\ appendLog[i].epoch = appendLog[j].epoch)
          => appendLog[i].inst = appendLog[j].inst
    /\ \A i \in Indices(appendLog) : \A r \in suspended :
          (appendLog[i].filepath.uuid = r.capture_file.capture_uuid
              /\ appendLog[i].epoch = r.epoch)
          => appendLog[i].inst = r.capture_file.inst
    /\ \A i \in Indices(appendLog) : \A k \in Indices(AllCalls) :
          AllCalls[k].tid = appendLog[i].tid => AllCalls[k].service = appendLog[i].inst

\* Two requests on one id overlapped (the later request appended first) and
\* both appended with the one pair constructed for the id.
ExclusivityWitness ==
    \E i, j \in Indices(appendLog) :
        /\ i < j
        /\ appendLog[i].rid > appendLog[j].rid
        /\ appendLog[i].filepath.uuid = appendLog[j].filepath.uuid
        /\ appendLog[i].inst = appendLog[j].inst
        /\ created[appendLog[i].filepath.uuid] = 1

\* A process_capture step for capture id c taken with no registry entry for c
\* and exactly one file of c on disk.
RecoveryStep(c) ==
    /\ nFinal' = nFinal + 1
    /\ response'.capture_uuid = c
    /\ c \notin DOMAIN capture_files_by_id
    /\ c \notin DOMAIN conversation_detection_service_by_id
    /\ Cardinality(Matches(disk, c)) = 1

FinishedSignalOnce ==
    /\ \A i, j \in Indices(AllCalls) :
          (AllCalls[i].capture_finished /\ AllCalls[j].capture_finished
              /\ AllCalls[i].service = AllCalls[j].service) => i = j
    /\ \A c \in Ids :
          Cardinality({i \in Indices(AllCalls) :
                          AllCalls[i].capture_uuid = c /\ AllCalls[i].capture_finished})
              = finalized[c]
    /\ \A i \in Indices(AllCalls) :
          /\ AllCalls[i].capture_finished <=> AllCalls[i].audio_data = None
          /\ (\E k \in Indices(appendLog) : appendLog[k].tid = AllCalls[i].tid)
                => /\ AllCalls[i].audio_data # None
                   /\ ~AllCalls[i].capture_finished

\* A capture got audio (an empty chunk too) and was finalized, and a second
\* process_capture for it was refused.
FinishedSignalWitness ==
    /\ response.op = "process_capture"
    /\ response.status = 500
    /\ finalized[response.capture_uuid] = 1
    /\ \E i, j \in Indices(detectLog) :
          /\ i < j
          /\ detectLog[i].service = detectLog[j].service
          /\ detectLog[i].audio_data = Some(<<>>)
          /\ detectLog[j].capture_finished

\* The audio payloads of a sequence of detect calls / appends for capture c.
AudioOf(calls, c) ==
    LET sel == SelectSeq(calls, LAMBDA e : e.capture_uuid = c /\ e.audio_data # None)
    IN  [i \in 1..Len(sel) |-> sel[i].audio_data[1]]

AppendedTo(c) ==
    LET sel == SelectSeq(appendLog, LAMBDA e : e.filepath.uuid = c)
    IN  [i \in 1..Len(sel) |-> sel[i].content]

\* C4: per-capture detect order.  For every capture the audio payloads passed
\* to detect_conversations, followed by those of the tasks still queued, are
\* the payloads appended to the capture's file, in the order of the appends.
DetectOrder ==
    \A c \in Ids :
        /\ AudioOf(AllCalls, c) = AppendedTo(c)
        /\ AudioOf(detectLog, c) = SubSeq(AppendedTo(c), 1, Len(AudioOf(detectLog, c)))

\* Two different payloads of one capture were detected, in append order.
DetectOrderWitness ==
    \E c \in Ids :
        /\ Len(AudioOf(detectLog, c)) = 2
        /\ AudioOf(detectLog, c)[1] # AudioOf(detectLog, c)[2]
        /\ task_queue = <<>>

\* The bytes capture file p got from upload_chunk: its data without the byte
\* a previous process lifetime left in it.
PayloadOf(p) ==
    IF disk[p].data # <<>> /\ disk[p].data[1] = 0 THEN Tail(disk[p].data) ELSE disk[p].data

\* The payloads of the requests 1..k that appended to p, in submission order.
RECURSIVE SubmittedTo(_, _)
SubmittedTo(p, k) ==
    IF k = 0 THEN <<>>
    ELSE SubmittedTo(p, k - 1) \o
         (IF \E i \in Indices(appendLog) : appendLog[i].rid = k /\ appendLog[i].filepath = p
          THEN (CHOOSE e \in {appendLog[i] : i \in Indices(appendLog)} : e.rid = k).content
          ELSE <<>>)

\* C5 as stated: append ordering.  Once the concurrent requests are done, a
\* capture's file holds their payloads as whole blocks in the order the
\* requests were submitted, and its payload length is the sum of theirs.
AppendOrdering ==
    suspended = {} =>
        \A p \in DOMAIN disk :
            /\ PayloadOf(p) = SubmittedTo(p, nReq)
            /\ Len(PayloadOf(p)) = Len(SubmittedTo(p, nReq))

\* A successful process_capture step for capture id c present in the registry.
FinalizeStep(c) ==
    /\ nFinal' = nFinal + 1
    /\ response'.capture_uuid = c
    /\ response'.status = 200
    /\ c \in DOMAIN capture_files_by_id
    /\ c \in DOMAIN conversation_detection_service_by_id

\* C6: finalize protocol.  A successful process_capture for a registered
\* capture puts exactly one task without audio, bound to the capture's
\* detection service, behind every task already queued, and removes the id
\* from capture_files_by_id and conversation_detection_service_by_id.
FinalizeProtocol ==
    [][\A c \in Ids : FinalizeStep(c) =>
          /\ Len(task_queue') = Len(task_queue) + 1
          /\ SubSeq(task_queue', 1, Len(task_queue)) = task_queue
          /\ task_queue'[Len(task_queue')].audio_data = None
          /\ task_queue'[Len(task_queue')].detection_service =
                conversation_detection_service_by_id[c]
          /\ c \notin DOMAIN capture_files_by_id'
          /\ c \notin DOMAIN conversation_detection_service_by_id']_vars

\* process_capture has just succeeded for a capture that has an audio task
\* queued: the finished task is behind it and the capture is in neither map.
FinalizeProtocolWitness ==
    /\ response.op = "process_capture"
    /\ response.status = 200
    /\ Len(task_queue) >= 2
    /\ task_queue[Len(task_queue)].audio_data = None
    /\ task_queue[1].audio_data # None
    /\ task_queue[1].detection_service = task_queue[Len(task_queue)].detection_service
    /\ response.capture_uuid \notin DOMAIN capture_files_by_id
    /\ response.capture_uuid \notin DOMAIN conversation_detection_service_by_id

\* C7 as stated: file recovery by id.  find_audio_filepath returns None when
\* no file or more than one file matches the capture id, and the matching
\* filepath only when exactly one file matches.
LocateByCaptureId ==
    \A c \in Ids : \A found \in find_audio_filepath(disk, c) :
        /\ ~found.raised
        /\ Cardinality(Matches(disk, c)) # 1 => found.filepath = None
        /\ Cardinality(Matches(disk, c)) = 1 =>
              found.filepath # None /\ found.filepath[1] \in Matches(disk, c)

\* C8: format rejection.  An upload_chunk whose extension is not pcm, wav or
\* aac never proceeds to a session; it is answered with status 200 and a
\* failure message, and the registry maps, the disk, the queue and the
\* suspended requests are unchanged.
FormatRejection ==
    [][nReq' = nReq + 1 =>
          /\ \A r \in suspended' \ suspended : r.ext \in {"pcm", "wav", "aac"}
          /\ (response'.op = "upload_chunk" /\ response'.rid = nReq'
                 /\ response'.ext \notin {"pcm", "wav", "aac"}) =>
                /\ response'.status = 200
                /\ response'.message =
                      "Failed to process because file extension is unsupported"
                /\ UNCHANGED <<capture_files_by_id, conversation_detection_service_by_id,
                               disk, task_queue, suspended, nextInst, nextTask,
                               appendLog>>
          /\ \/ suspended' # suspended
             \/ response'.op = "upload_chunk" /\ response'.rid = nReq']_vars

\* An mp3 upload for a capture id with no session and no file was rejected.
FormatRejectionWitness ==
    /\ response.op = "upload_chunk"
    /\ response.ext = "mp3"
    /\ response.status = 200
    /\ response.capture_uuid \notin DOMAIN capture_files_by_id
    /\ response.capture_uuid \notin DOMAIN conversation_detection_service_by_id
    /\ Matches(disk, response.capture_uuid) = {}
    /\ nReq = 2

\* C9 as stated: partial processing failure.  In a run with two or more
\* completed spans in which the conversation processor raises for one segment,
\* every segment is still handed to the processor.
PartialProcessingFailure ==
    (lastRun.stage = "ok" /\ lastRun.completed >= 2 /\ lastRun.pfail # 0)
        => lastRun.processed = lastRun.segments

\* C10: the queue keeps draining.  Under a fair worker every task put on the
\* queue is eventually taken off it and run, whatever earlier runs raised.
QueueDrains ==
    \A t \in 1..(MaxReq + MaxFinal) :
        (nextTask > t) ~> (\E i \in Indices(detectLog) : detectLog[i].tid = t)

\* A run raised and a task put behind it was run all the same.
QueueDrainsWitness ==
    /\ failed # 0
    /\ \E i \in Indices(detectLog) : detectLog[i].tid > failed

\* A process_capture step for capture id c that was finalized before and has
\* no registry entry any more.
RepeatFinalizeStep(c) ==
    /\ nFinal' = nFinal + 1
    /\ response'.capture_uuid = c
    /\ finalized[c] >= 1
    /\ c \notin DOMAIN capture_files_by_id
    /\ c \notin DOMAIN conversation_detection_service_by_id

ProgressPerRun ==
    (lastRun.tid # 0 /\ ~lastRun.raised) =>
        /\ Len(lastRun.notified) =
              lastRun.completed + (IF lastRun.in_progress THEN 1 ELSE 0)
        /\ \A i \in 1..lastRun.completed :
              lastRun.notified[i] = [span |-> i, in_conversation |-> FALSE]
        /\ lastRun.in_progress =>
              lastRun.notified[lastRun.completed + 1] =
                  [span |-> lastRun.completed + 1, in_conversation |-> TRUE]
        /\ Len(lastRun.segments) = lastRun.completed
        /\ \A i \in 1..lastRun.completed : lastRun.segments[i] = i
        /\ lastRun.extracted = lastRun.segments

\* A run with two completed spans and one in progress completed although the
\* processor raised on the first segment.
ProgressPerRunWitness ==
    /\ lastRun.tid # 0
    /\ ~lastRun.raised
    /\ lastRun.completed = MaxSpans
    /\ lastRun.in_progress
    /\ lastRun.pfail = 1
    /\ Len(lastRun.notified) = MaxSpans + 1

\* The file was started by a raw append of a container-format chunk and
\* holds its bytes.
HoldsContainerData(files, filepath) ==
    /\ filepath \in DOMAIN files
    /\ filepath.ext = "wav"
    /\ ~files[filepath].hdr
    /\ Len(files[filepath].data) > 0

\* C17 as stated: header synthesis only on a header-less session.  A pcm
\* chunk that is appended to a file already holding container-format data
\* has write_wav_header = FALSE.
HeaderOnlyOnFreshFile ==
    [][\A r \in suspended :
          (/\ suspended' = suspended \ {r}
           /\ r.ext = "pcm"
           /\ HoldsContainerData(disk, r.capture_file.filepath))
          => ~r.write_wav_header]_vars

\* C17 amended: every pcm chunk, and no other, has write_wav_header = TRUE and
\* is appended through append_to_wav_file, whatever the file holds; a header
\* is synthesized only when that append creates the file, so a pcm chunk
\* appended after a wav chunk adds its bytes and no header.
PcmAlwaysRequestsHeader ==
    [][\A r \in suspended :
          suspended' = suspended \ {r} =>
             LET filepath == r.capture_file.filepath
             IN  /\ r.write_wav_header = (r.ext = "pcm")
                 /\ IF filepath \in DOMAIN disk
                    THEN /\ disk'[filepath].hdr = disk[filepath].hdr
                         /\ Len(disk'[filepath].data) >= Len(disk[filepath].data)
                    ELSE disk'[filepath].hdr = r.write_wav_header]_vars

\* A pcm chunk was appended to a file that a wav chunk had started: two
\* appends, no synthesized header.
PcmAfterWavWitness ==
    /\ response.op = "upload_chunk"
    /\ response.ext = "pcm"
    /\ response.message = "Audio processed"
    /\ Len(appendLog) = 2
    /\ appendLog[2].rid = response.rid
    /\ appendLog[1].filepath = appendLog[2].filepath
    /\ appendLog[1].content # <<>>
    /\ appendLog[2].content # <<>>
    /\ HoldsContainerData(disk, appendLog[2].filepath)
    /\ Len(disk[appendLog[2].filepath].data) =
          Len(appendLog[1].content) + Len(appendLog[2].content)

\* C18: no audio after the finished signal.  Once the capture_finished task
\* of a detection service has been put on the queue, no task for the same
\* detection service is put after it and no bytes are appended to the
\* capture's file after it: the capture_finished call is the last call the
\* detection service receives.
NoAudioAfterFinished ==
    /\ \A i \in Indices(AllCalls), j \in Indices(AllCalls) :
          (i < j /\ AllCalls[i].capture_finished) =>
              AllCalls[j].service # AllCalls[i].service
    /\ \A i \in Indices(AllCalls), k \in Indices(appendLog) :
          (/\ AllCalls[i].capture_finished
           /\ appendLog[k].inst = AllCalls[i].service)
          => appendLog[k].tid < AllCalls[i].tid

FormatConsistency ==
    /\ \A i \in Indices(task_queue) :
          task_queue[i].format = task_queue[i].capture_file.filepath.ext
    /\ \A k \in Indices(appendLog), i \in Indices(AllCalls) :
          AllCalls[i].tid = appendLog[k].tid =>
              AllCalls[i].format = appendLog[k].filepath.ext

\* A complete_audio step for capture id c that has no handler.
CompleteUnknownStep(c) ==
    /\ nComplete' = nComplete + 1
    /\ response'.capture_uuid = c
    /\ c \notin DOMAIN capture_handlers

\* The step gives capture id c an entry in capture_handlers or in one of the
\* two registry maps.
SessionCreated(c) ==
    \/ c \in DOMAIN capture_handlers' \ DOMAIN capture_handlers
    \/ c \in DOMAIN capture_files_by_id' \ DOMAIN capture_files_by_id
    \/ c \in DOMAIN conversation_detection_service_by_id' \
                DOMAIN conversation_detection_service_by_id

\* C11: streaming complete on an unknown id.  complete_audio for a capture id
\* that is not in capture_handlers fails with status 500, leaves
\* capture_handlers and both registry maps unchanged and puts no task; an
\* entry for a capture id appears only in a step that begins a streaming_post
\* or an upload_chunk for that id.
CompleteUnknownFails ==
    [][\A c \in Ids :
          /\ CompleteUnknownStep(c) =>
                /\ response'.op = "complete_audio"
                /\ response'.status = 500
                /\ UNCHANGED <<capture_handlers, capture_files_by_id,
                               conversation_detection_service_by_id, task_queue,
                               nextTask, nextInst, created, disk>>
          /\ SessionCreated(c) =>
                \/ /\ nStream' = nStream + 1
                   /\ \E s \in streams' \ streams : s.capture_uuid = c
                \/ /\ nReq' = nReq + 1
                   /\ \E r \in suspended' \ suspended :
                         r.capture_file.capture_uuid = c]_vars

\* complete_audio was refused for a capture id that upload_chunk had
\* registered but that has no streaming handler.
CompleteUnknownWitness ==
    /\ response.op = "complete_audio"
    /\ response.status = 500
    /\ response.message = "Capture session not found"
    /\ response.capture_uuid \in DOMAIN capture_files_by_id
    /\ capture_handlers = EmptyMap
    /\ task_queue = <<>>

\* C13: a streaming session is evicted by process_capture.  For a capture
\* created by streaming_post whose file is on disk, process_capture succeeds,
\* puts the task without audio, and afterwards neither a handler nor a
\* registry entry remains for the capture id.
StreamSessionEvicted ==
    [][\A c \in Ids :
          (/\ nFinal' = nFinal + 1
           /\ response'.capture_uuid = c
           /\ nReq = 0
           /\ c \in DOMAIN capture_handlers
           /\ c \in DOMAIN capture_files_by_id
           /\ \A s \in streams : s.capture_uuid # c
           /\ \E k \in Indices(appendLog) :
                 appendLog[k].inst = capture_files_by_id[c].inst
           /\ Matches(disk, c) = {capture_files_by_id[c].filepath})
          => /\ response'.status = 200
             /\ Len(task_queue') = Len(task_queue) + 1
             /\ task_queue'[Len(task_queue')].audio_data = None
             /\ c \notin DOMAIN capture_files_by_id'
             /\ c \notin DOMAIN conversation_detection_service_by_id'
             /\ c \notin DOMAIN capture_handlers']_vars

\* C14: one session per capture id across both transports.  For every capture
\* id the pairs constructed and not yet finalized number at most one, which
\* is the pair the registry holds, and every upload begun since the last
\* finalize holds that pair: the second transport to touch the id resolves to
\* the session the first one created.
OneSessionPerId ==
    \A c \in Ids :
       /\ (c \in DOMAIN capture_files_by_id) =
             (c \in DOMAIN conversation_detection_service_by_id)
       /\ created[c] = finalized[c] +
             (IF c \in DOMAIN capture_files_by_id THEN 1 ELSE 0)
       /\ \A r \in suspended :
             (r.capture_file.capture_uuid = c /\ r.epoch = finalized[c]) =>
                /\ c \in DOMAIN capture_files_by_id
                /\ r.capture_file = capture_files_by_id[c]
                /\ r.detection_service = conversation_detection_service_by_id[c]
       /\ \A i \in Indices(appendLog), j \in Indices(appendLog) :
             (/\ appendLog[i].filepath.uuid = c
              /\ appendLog[j].filepath.uuid = c
              /\ appendLog[i].epoch = appendLog[j].epoch)
             => appendLog[i].inst = appendLog[j].inst

\* A stream chunk and an uploaded chunk of the same capture id were appended
\* through the one pair constructed for it.
OneSessionWitness ==
    /\ Len(appendLog) = 2
    /\ appendLog[1].rid = 0
    /\ appendLog[2].rid > 0
    /\ appendLog[1].inst = appendLog[2].inst
    /\ created["a"] = 1
    /\ "a" \in DOMAIN capture_handlers
    /\ capture_files_by_id["a"].inst = appendLog[1].inst

\* The step removes the entry of capture id c from capture_handlers or from
\* one of the two registry maps.
SessionEvicted(c) ==
    \/ c \in DOMAIN capture_handlers \ DOMAIN capture_handlers'
    \/ c \in DOMAIN capture_files_by_id \ DOMAIN capture_files_by_id'
    \/ c \in DOMAIN conversation_detection_service_by_id \
                DOMAIN conversation_detection_service_by_id'

\* C16: only finalize evicts.  An entry leaves capture_files_by_id,
\* conversation_detection_service_by_id or capture_handlers only in a
\* successful process_capture for its capture id; a streaming_post that ends,
\* by ClientDisconnect too, answers 200 "Audio received".
OnlyFinalizeEvicts ==
    [][/\ \A c \in Ids :
             SessionEvicted(c) =>
                /\ nFinal' = nFinal + 1
                /\ response'.op = "process_capture"
                /\ response'.status = 200
                /\ response'.capture_uuid = c
       /\ \A s \in streams :
             (streams' = streams \ {s} /\ nChunk' = nChunk) =>
                /\ response'.op = "streaming_post"
                /\ response'.status = 200
                /\ response'.message = "Audio received"]_vars

\* A stream that carried a chunk has ended after complete_audio and an
\* upload_chunk for the same capture id, and every entry is still in place.
OnlyFinalizeEvictsWitness ==
    /\ response.op = "streaming_post"
    /\ response.message = "Audio received"
    /\ streams = {}
    /\ suspended = {}
    /\ nChunk >= 1
    /\ nReq >= 1
    /\ nComplete >= 1
    /\ finalized["a"] = 0
    /\ "a" \in DOMAIN capture_handlers
    /\ capture_handlers["a"].finished
    /\ "a" \in DOMAIN capture_files_by_id
    /\ "a" \in DOMAIN conversation_detection_service_by_id

====
